---- MODULE Spec2Model ----
(***************************************************************************)
(* Model of ecc_import_raw (src/ltc/pk/ecc/ecc_import_raw.c): import of a  *)
(* raw private scalar or an ANSI X9.63 public point into an ecc_key.       *)
(* One action per statement of the function; every collaborator call may   *)
(* return an error.  Big numbers are integers, pointers are names.         *)
(***************************************************************************)
EXTENDS Integers, Sequences, FiniteSets, TLC

VARIABLES in, inlen, dp, key, t1, t2, prime, a, b, base,
          err, type, size, pc, live, rel, log, fault, in0

inputs  == <<in, inlen, dp>>
scratch == <<t1, t2, prime, a, b>>
heap    == <<live, rel>>
vars    == <<in, inlen, dp, key, t1, t2, prime, a, b, base,
             err, type, size, pc, live, rel, log, fault, in0>>

(* ---------------------------- bounds ----------------------------------- *)
\* raw buffers carry bytes 0..MaxNoise after their first byte
MaxNoise == 1
\* raw buffers are up to MaxExtra bytes longer than the longest encoding
MaxExtra == 1
\* private scalars run from 0 to the group order plus ScalarSlack
ScalarSlack == 1

(* ------------------------ curve descriptors ---------------------------- *)
\* ltc_ecc_set_type records; the numbers are radix-16 digit strings.
\* toy23 is y^2 = x^3 + x + 1 over GF(23) with G = (3,10) of order 28;
\* c263 is y^2 = x^3 + 2x + 3 over GF(263) with G = (41,253) of order 270.
Sets ==
  [ toy23 |-> [ size |-> 1, prime |-> <<"1","7">>, A |-> <<"1">>, B |-> <<"1">>,
                order |-> <<"1","C">>, Gx |-> <<"3">>, Gy |-> <<"A">> ],
    c263  |-> [ size |-> 2, prime |-> <<"1","0","7">>, A |-> <<"2">>, B |-> <<"3">>,
                order |-> <<"1","0","E">>, Gx |-> <<"2","9">>, Gy |-> <<"F","D">> ] ]

CurveNames == {"toy23", "c263"}

(* --------------------- arithmetic collaborators ------------------------ *)
HexDigit(c) ==
  CASE c = "0" -> 0  [] c = "1" -> 1  [] c = "2" -> 2  [] c = "3" -> 3
    [] c = "4" -> 4  [] c = "5" -> 5  [] c = "6" -> 6  [] c = "7" -> 7
    [] c = "8" -> 8  [] c = "9" -> 9  [] c = "A" -> 10 [] c = "B" -> 11
    [] c = "C" -> 12 [] c = "D" -> 13 [] c = "E" -> 14 [] c = "F" -> 15

RECURSIVE mp_read_radix(_)
\* value of a radix-16 digit string, most significant digit first
mp_read_radix(s) ==
  IF Len(s) = 0 THEN 0
  ELSE 16 * mp_read_radix(SubSeq(s, 1, Len(s) - 1)) + HexDigit(s[Len(s)])

RECURSIVE mp_read_unsigned_bin(_, _, _)
\* big-endian value of the len bytes of buf that start at C offset off
mp_read_unsigned_bin(buf, off, len) ==
  IF len = 0 THEN 0
  ELSE 256 * mp_read_unsigned_bin(buf, off, len - 1) + buf[off + len]

mp_iszero(n) == n = 0
mp_isodd(n)  == n % 2 = 1
mp_sqr(n)    == n * n
mp_add(m, n) == m + n
mp_mod(n, p) == n % p
mp_mulmod(m, n, p) == (m * n) % p
mp_submod(m, n, p) == (m - n) % p

\* the square roots of n modulo p, each in 0..p-1
SqrtRoots(n, p) == { r \in 0..(p - 1) : (r * r) % p = n % p }

\* curve membership as ltc_ecc_is_point decides it: y^2 = x^3 + A x + B mod prime
ltc_ecc_is_point(d, x, y) ==
  LET p  == mp_read_radix(Sets[d].prime)
      ca == mp_read_radix(Sets[d].A)
      cb == mp_read_radix(Sets[d].B)
      xr == x % p
      yr == y % p
  IN  (yr * yr - xr * xr * xr - ca * xr - cb) % p = 0

\* points are ecc_point records; z = 0 stands for the point at infinity
Infinity == [x |-> 0, y |-> 0, z |-> 0]
Affine(x, y) == [x |-> x, y |-> y, z |-> 1]

InvMod(n, p) == CHOOSE i \in 1..(p - 1) : (i * n) % p = 1

PointAdd(P, Q, ca, p) ==
  IF P.z = 0 THEN Q
  ELSE IF Q.z = 0 THEN P
  ELSE IF P.x = Q.x /\ (P.y + Q.y) % p = 0 THEN Infinity
  ELSE LET l  == IF P = Q
                 THEN ((3 * P.x * P.x + ca) * InvMod((2 * P.y) % p, p)) % p
                 ELSE ((Q.y - P.y) * InvMod((Q.x - P.x) % p, p)) % p
           x3 == (l * l - P.x - Q.x) % p
           y3 == (l * (P.x - x3) - P.y) % p
       IN  Affine(x3, y3)

RECURSIVE ecc_ptmul(_, _, _, _)
\* k*G in affine form (map = 1)
ecc_ptmul(k, G, ca, p) ==
  IF k = 0 THEN Infinity
  ELSE LET H == ecc_ptmul(k \div 2, G, ca, p)
           D == PointAdd(H, H, ca, p)
       IN  IF k % 2 = 1 THEN PointAdd(D, G, ca, p) ELSE D

\* the error codes a failing collaborator may hand back
CollabErrs == {"CRYPT_MEM", "CRYPT_ERROR"}

(* ----------------------------- inputs ---------------------------------- *)
\* the S-byte big-endian encoding of n
BigEndian(n, S) == [i \in 1..S |-> (n \div (256 ^ (S - i))) % 256]

FieldPrime(d) == mp_read_radix(Sets[d].prime)
GroupOrder(d) == mp_read_radix(Sets[d].order)
BasePoint(d)  == Affine(mp_read_radix(Sets[d].Gx), mp_read_radix(Sets[d].Gy))

CurvePoints(d) ==
  { q \in (0..(FieldPrime(d) - 1)) \X (0..(FieldPrime(d) - 1)) :
      ltc_ecc_is_point(d, q[1], q[2]) }

LeadBytes == {0, 1, 2, 3, 4, 5, 255}

ScalarInputs(d) ==
  { BigEndian(k, Sets[d].size) : k \in 0..(GroupOrder(d) + ScalarSlack) }

UncompressedInputs(d) ==
  LET S == Sets[d].size
      p == FieldPrime(d)
  IN  { <<4>> \o BigEndian(q[1], S) \o BigEndian(q[2], S) : q \in CurvePoints(d) }
      \cup
      { <<4>> \o BigEndian(q[1], S) \o BigEndian((q[2] + 1) % p, S) : q \in CurvePoints(d) }

CompressedInputs(d) ==
  { <<tag>> \o BigEndian(x, Sets[d].size) :
      tag \in {2, 3}, x \in 0..(FieldPrime(d) - 1) }

RawInputs(d) ==
  UNION { { s \in [1..L -> LeadBytes \cup (0..MaxNoise)] :
              \A i \in 2..L : s[i] \in 0..MaxNoise } :
          L \in 0..(2 * Sets[d].size + 1 + MaxExtra) }

Inputs(d) ==
  ScalarInputs(d) \cup UncompressedInputs(d) \cup CompressedInputs(d) \cup RawInputs(d)

(* ------------------------------ state ---------------------------------- *)
KeyMp   == {"key.pubkey.x", "key.pubkey.y", "key.pubkey.z", "key.k"}
Scratch == {"t1", "t2", "prime", "a", "b"}
Resources == KeyMp \cup Scratch \cup {"base"}

\* the caller's record before the call: nothing in it is initialised
KeyPre == [type |-> "UNSET", idx |-> 0, dp |-> "NULL",
           x |-> -1, y |-> -1, z |-> -1, k |-> -1]

NoPoint == [x |-> -1, y |-> -1, z |-> -1]

Init ==
  /\ dp \in CurveNames
  /\ in \in Inputs(dp)
  /\ inlen = Len(in)
  /\ key = KeyPre
  /\ t1 = -1 /\ t2 = -1 /\ prime = -1 /\ a = -1 /\ b = -1
  /\ base = NoPoint
  /\ err = "CRYPT_OK"
  /\ type = "NONE"
  /\ size = 0
  /\ pc = "mp_init_multi"
  /\ live = {}
  /\ rel = [r \in Resources |-> 0]
  /\ log = {}
  /\ fault = <<>>
  /\ in0 = "unread"

(* ----------------------------- helpers --------------------------------- *)
Called(f) == log' = log \cup {f}

\* a collaborator returned the error e: goto cleanup with err = e
Fails(f, e, kind) ==
  /\ err' = e
  /\ fault' = <<f, e, kind>>
  /\ pc' = "cleanup"

\* some resource failure inside collaborator f
EnvFails(f) == \E e \in CollabErrs : Fails(f, e, "env")

Continue(l) ==
  /\ pc' = l
  /\ UNCHANGED <<err, fault>>

Released(S) ==
  /\ live' = live \ S
  /\ rel' = [r \in Resources |-> IF r \in S THEN rel[r] + 1 ELSE rel[r]]

(* ------------------------ line 38: allocation --------------------------- *)
InitMulti ==
  /\ pc = "mp_init_multi"
  /\ Called("mp_init_multi")
  /\ \/ /\ live' = live \cup KeyMp \cup Scratch
        /\ key' = [key EXCEPT !.x = 0, !.y = 0, !.z = 0, !.k = 0]
        /\ t1' = 0 /\ t2' = 0 /\ prime' = 0 /\ a' = 0 /\ b' = 0
        /\ Continue("classify")
     \/ /\ err' = "CRYPT_MEM"
        /\ fault' = <<"mp_init_multi", "CRYPT_MEM", "env">>
        /\ pc' = "done"
        /\ UNCHANGED <<key, scratch, live>>
  /\ UNCHANGED <<inputs, base, type, size, rel, in0>>

(* ------------------- lines 42, 72, 87, 119: classifier ------------------ *)
\* line 42
IsPrivateRaw(len, d) == len = Sets[d].size

\* line 72 with the oddness test dropped and inlen>>1 for (inlen-1)>>1
IsUncompressedNoOdd(b0, len, d) ==
  /\ b0 = 4
  /\ len \div 2 = Sets[d].size

\* line 72; len is unsigned, so (len-1)>>1 is only evaluated for odd len
IsUncompressed(b0, len, d) ==
  /\ b0 = 4
  /\ len % 2 = 1
  /\ (len - 1) \div 2 = Sets[d].size

\* line 87; for len = 0 the unsigned len-1 wraps to ULONG_MAX, which equals
\* the int dp->size converted to unsigned long exactly when dp->size = -1
IsCompressed(b0, len, d) ==
  /\ b0 \in {2, 3}
  /\ len - 1 = Sets[d].size

\* what the expression in[0] yields: the first byte, or, for an empty
\* buffer, whatever byte lies behind it
FirstByte == IF inlen >= 1 THEN {in[1]} ELSE {0, 2, 3, 4}

Classify ==
  /\ pc = "classify"
  /\ IF IsPrivateRaw(inlen, dp)
     THEN /\ type' = "PK_PRIVATE"
          /\ size' = inlen
          /\ Continue("priv_read_k")
          /\ UNCHANGED in0
     ELSE \E b0 \in FirstByte :
          /\ in0' = IF inlen >= 1 THEN "read" ELSE "out_of_bounds"
          /\ IF IsUncompressed(b0, inlen, dp)
             THEN /\ type' = "PK_PUBLIC"
                  /\ size' = (inlen - 1) \div 2
                  /\ Continue("unc_read_x")
             ELSE IF IsCompressed(b0, inlen, dp)
             THEN /\ type' = "PK_PUBLIC"
                  /\ size' = inlen - 1
                  /\ Continue("cmp_read_x")
             ELSE /\ err' = "CRYPT_INVALID_PACKET"
                  /\ pc' = "cleanup"
                  /\ UNCHANGED <<type, size, fault>>
  /\ UNCHANGED <<inputs, key, scratch, base, heap, log>>

(* ----------------------- lines 43-71: private key ----------------------- *)
\* line 47
PrivReadK ==
  /\ pc = "priv_read_k"
  /\ Called("mp_read_unsigned_bin")
  /\ \/ /\ key' = [key EXCEPT !.k = mp_read_unsigned_bin(in, 0, size)]
        /\ Continue("priv_iszero")
     \/ /\ EnvFails("mp_read_unsigned_bin")
        /\ UNCHANGED key
  /\ UNCHANGED <<inputs, scratch, base, type, size, heap, in0>>

\* line 50 with the zero test missing
ZeroScalarNever(k) == FALSE

\* line 50
ZeroScalar(k) == mp_iszero(k)

PrivIsZero ==
  /\ pc = "priv_iszero"
  /\ IF ZeroScalar(key.k)
     THEN /\ err' = "CRYPT_INVALID_PACKET"
          /\ pc' = "cleanup"
          /\ UNCHANGED fault
     ELSE Continue("priv_new_point")
  /\ UNCHANGED <<inputs, key, scratch, base, type, size, heap, log, in0>>

\* line 55
PrivNewPoint ==
  /\ pc = "priv_new_point"
  /\ Called("ltc_ecc_new_point")
  /\ \/ /\ base' = [x |-> 0, y |-> 0, z |-> 0]
        /\ live' = live \cup {"base"}
        /\ Continue("priv_read_prime")
     \/ /\ err' = "CRYPT_MEM"
        /\ fault' = <<"ltc_ecc_new_point", "CRYPT_MEM", "env">>
        /\ pc' = "cleanup"
        /\ UNCHANGED <<base, live>>
  /\ UNCHANGED <<inputs, key, scratch, type, size, rel, in0>>

\* line 60
PrivReadPrime ==
  /\ pc = "priv_read_prime"
  /\ Called("mp_read_radix")
  /\ \/ /\ prime' = mp_read_radix(Sets[dp].prime)
        /\ Continue("priv_read_gx")
     \/ /\ EnvFails("mp_read_radix")
        /\ UNCHANGED prime
  /\ UNCHANGED <<inputs, key, t1, t2, a, b, base, type, size, heap, in0>>

\* line 61
PrivReadGx ==
  /\ pc = "priv_read_gx"
  /\ Called("mp_read_radix")
  /\ \/ /\ base' = [base EXCEPT !.x = mp_read_radix(Sets[dp].Gx)]
        /\ Continue("priv_read_gy")
     \/ /\ EnvFails("mp_read_radix")
        /\ UNCHANGED base
  /\ UNCHANGED <<inputs, key, scratch, type, size, heap, in0>>

\* line 62
PrivReadGy ==
  /\ pc = "priv_read_gy"
  /\ Called("mp_read_radix")
  /\ \/ /\ base' = [base EXCEPT !.y = mp_read_radix(Sets[dp].Gy)]
        /\ Continue("priv_set_z")
     \/ /\ EnvFails("mp_read_radix")
        /\ UNCHANGED base
  /\ UNCHANGED <<inputs, key, scratch, type, size, heap, in0>>

\* line 63
PrivSetZ ==
  /\ pc = "priv_set_z"
  /\ Called("mp_set")
  /\ \/ /\ base' = [base EXCEPT !.z = 1]
        /\ Continue("priv_read_a")
     \/ /\ EnvFails("mp_set")
        /\ UNCHANGED base
  /\ UNCHANGED <<inputs, key, scratch, type, size, heap, in0>>

\* line 65 reading dp->B where dp->A is meant
PrivReadAFromB ==
  /\ pc = "priv_read_a"
  /\ Called("mp_read_radix")
  /\ \/ /\ a' = mp_read_radix(Sets[dp].B)
        /\ Continue("priv_ptmul")
     \/ /\ EnvFails("mp_read_radix")
        /\ UNCHANGED a
  /\ UNCHANGED <<inputs, key, t1, t2, prime, b, base, type, size, heap, in0>>

\* line 65
PrivReadA ==
  /\ pc = "priv_read_a"
  /\ Called("mp_read_radix")
  /\ \/ /\ a' = mp_read_radix(Sets[dp].A)
        /\ Continue("priv_ptmul")
     \/ /\ EnvFails("mp_read_radix")
        /\ UNCHANGED a
  /\ UNCHANGED <<inputs, key, t1, t2, prime, b, base, type, size, heap, in0>>

\* lines 66-68; a product at infinity has no affine form and is an error
PrivPtMul ==
  /\ pc = "priv_ptmul"
  /\ Called("ecc_ptmul")
  /\ \/ LET R == ecc_ptmul(key.k, base, a, prime)
        IN  IF R.z = 0
            THEN /\ Fails("ecc_ptmul", "CRYPT_ERROR", "input")
                 /\ UNCHANGED key
            ELSE /\ key' = [key EXCEPT !.x = R.x, !.y = R.y, !.z = R.z]
                 /\ Continue("priv_del_point")
     \/ /\ EnvFails("ecc_ptmul")
        /\ UNCHANGED key
  /\ UNCHANGED <<inputs, scratch, base, type, size, heap, in0>>

\* line 70
PrivDelPoint ==
  /\ pc = "priv_del_point"
  /\ Called("ltc_ecc_del_point")
  /\ base' = NoPoint
  /\ Released({"base"})
  /\ Continue("ltc_ecc_is_point")
  /\ UNCHANGED <<inputs, key, scratch, type, size, in0>>

(* ------------------ lines 73-86: uncompressed public key ---------------- *)
\* line 77
UncReadX ==
  /\ pc = "unc_read_x"
  /\ Called("mp_read_unsigned_bin")
  /\ \/ /\ key' = [key EXCEPT !.x = mp_read_unsigned_bin(in, 1, size)]
        /\ Continue("unc_read_y")
     \/ /\ EnvFails("mp_read_unsigned_bin")
        /\ UNCHANGED key
  /\ UNCHANGED <<inputs, scratch, base, type, size, heap, in0>>

\* line 81 with the tag byte forgotten in the offset
UncYOffsetNoTag(sz) == sz

\* line 81: the y bytes start at in+1+size
UncYOffset(sz) == 1 + sz

UncReadY ==
  /\ pc = "unc_read_y"
  /\ Called("mp_read_unsigned_bin")
  /\ \/ /\ key' = [key EXCEPT !.y = mp_read_unsigned_bin(in, UncYOffset(size), size)]
        /\ Continue("unc_set_z")
     \/ /\ EnvFails("mp_read_unsigned_bin")
        /\ UNCHANGED key
  /\ UNCHANGED <<inputs, scratch, base, type, size, heap, in0>>

\* line 85
UncSetZ ==
  /\ pc = "unc_set_z"
  /\ Called("mp_set")
  /\ \/ /\ key' = [key EXCEPT !.z = 1]
        /\ Continue("ltc_ecc_is_point")
     \/ /\ EnvFails("mp_set")
        /\ UNCHANGED key
  /\ UNCHANGED <<inputs, scratch, base, type, size, heap, in0>>

(* ------------------ lines 88-118: compressed public key ----------------- *)
\* line 92
CmpReadX ==
  /\ pc = "cmp_read_x"
  /\ Called("mp_read_unsigned_bin")
  /\ \/ /\ key' = [key EXCEPT !.x = mp_read_unsigned_bin(in, 1, size)]
        /\ Continue("cmp_read_prime")
     \/ /\ EnvFails("mp_read_unsigned_bin")
        /\ UNCHANGED key
  /\ UNCHANGED <<inputs, scratch, base, type, size, heap, in0>>

\* line 96
CmpReadPrime ==
  /\ pc = "cmp_read_prime"
  /\ Called("mp_read_radix")
  /\ \/ /\ prime' = mp_read_radix(Sets[dp].prime)
        /\ Continue("cmp_read_b")
     \/ /\ EnvFails("mp_read_radix")
        /\ UNCHANGED prime
  /\ UNCHANGED <<inputs, key, t1, t2, a, b, base, type, size, heap, in0>>

\* line 97
CmpReadB ==
  /\ pc = "cmp_read_b"
  /\ Called("mp_read_radix")
  /\ \/ /\ b' = mp_read_radix(Sets[dp].B)
        /\ Continue("cmp_read_a")
     \/ /\ EnvFails("mp_read_radix")
        /\ UNCHANGED b
  /\ UNCHANGED <<inputs, key, t1, t2, prime, a, base, type, size, heap, in0>>

\* line 98
CmpReadA ==
  /\ pc = "cmp_read_a"
  /\ Called("mp_read_radix")
  /\ \/ /\ a' = mp_read_radix(Sets[dp].A)
        /\ Continue("cmp_sqr")
     \/ /\ EnvFails("mp_read_radix")
        /\ UNCHANGED a
  /\ UNCHANGED <<inputs, key, t1, t2, prime, b, base, type, size, heap, in0>>

\* line 100: t1 = x^2
CmpSqr ==
  /\ pc = "cmp_sqr"
  /\ Called("mp_sqr")
  /\ \/ /\ t1' = mp_sqr(key.x)
        /\ Continue("cmp_mulmod_x3")
     \/ /\ EnvFails("mp_sqr")
        /\ UNCHANGED t1
  /\ UNCHANGED <<inputs, key, t2, prime, a, b, base, type, size, heap, in0>>

\* line 101: t1 = t1 * x mod prime
CmpMulmodX3 ==
  /\ pc = "cmp_mulmod_x3"
  /\ Called("mp_mulmod")
  /\ \/ /\ t1' = mp_mulmod(t1, key.x, prime)
        /\ Continue("cmp_mulmod_ax")
     \/ /\ EnvFails("mp_mulmod")
        /\ UNCHANGED t1
  /\ UNCHANGED <<inputs, key, t2, prime, a, b, base, type, size, heap, in0>>

\* line 103: t2 = a * x mod prime
CmpMulmodAx ==
  /\ pc = "cmp_mulmod_ax"
  /\ Called("mp_mulmod")
  /\ \/ /\ t2' = mp_mulmod(a, key.x, prime)
        /\ Continue("cmp_add_ax")
     \/ /\ EnvFails("mp_mulmod")
        /\ UNCHANGED t2
  /\ UNCHANGED <<inputs, key, t1, prime, a, b, base, type, size, heap, in0>>

\* line 104: t1 = t1 + t2
CmpAddAx ==
  /\ pc = "cmp_add_ax"
  /\ Called("mp_add")
  /\ \/ /\ t1' = mp_add(t1, t2)
        /\ Continue("cmp_add_b")
     \/ /\ EnvFails("mp_add")
        /\ UNCHANGED t1
  /\ UNCHANGED <<inputs, key, t2, prime, a, b, base, type, size, heap, in0>>

\* line 106: t1 = t1 + b
CmpAddB ==
  /\ pc = "cmp_add_b"
  /\ Called("mp_add")
  /\ \/ /\ t1' = mp_add(t1, b)
        /\ Continue("cmp_sqrt")
     \/ /\ EnvFails("mp_add")
        /\ UNCHANGED t1
  /\ UNCHANGED <<inputs, key, t2, prime, a, b, base, type, size, heap, in0>>

\* line 108: t2 = a square root of t1 modulo prime; the primitive may hand
\* back either root, and reports an error when t1 has none
CmpSqrt ==
  /\ pc = "cmp_sqrt"
  /\ Called("mp_sqrtmod_prime")
  /\ \/ /\ SqrtRoots(t1, prime) # {}
        /\ \E r \in SqrtRoots(t1, prime) : t2' = r
        /\ Continue("cmp_adjust_y")
     \/ /\ SqrtRoots(t1, prime) = {}
        /\ Fails("mp_sqrtmod_prime", "CRYPT_ERROR", "input")
        /\ UNCHANGED t2
     \/ /\ EnvFails("mp_sqrtmod_prime")
        /\ UNCHANGED t2
  /\ UNCHANGED <<inputs, key, t1, prime, a, b, base, type, size, heap, in0>>

\* lines 110-115 with the two tags exchanged
AdjustYSwapped(t, tag, p) ==
  IF (mp_isodd(t) /\ tag = 2) \/ (~mp_isodd(t) /\ tag = 3)
  THEN mp_mod(t, p)
  ELSE mp_submod(p, t, p)

\* lines 110-115 with the else branch subtracting from nothing
AdjustYNoFlip(t, tag, p) == mp_mod(t, p)

\* lines 110-115: the y that is stored for the root t and the tag byte
AdjustY(t, tag, p) ==
  IF (mp_isodd(t) /\ tag = 3) \/ (~mp_isodd(t) /\ tag = 2)
  THEN mp_mod(t, p)
  ELSE mp_submod(p, t, p)

CmpAdjustY ==
  /\ pc = "cmp_adjust_y"
  /\ Called(IF (mp_isodd(t2) /\ in[1] = 3) \/ (~mp_isodd(t2) /\ in[1] = 2)
            THEN "mp_mod" ELSE "mp_submod")
  /\ \/ /\ key' = [key EXCEPT !.y = AdjustY(t2, in[1], prime)]
        /\ Continue("cmp_set_z")
     \/ /\ EnvFails(IF (mp_isodd(t2) /\ in[1] = 3) \/ (~mp_isodd(t2) /\ in[1] = 2)
                    THEN "mp_mod" ELSE "mp_submod")
        /\ UNCHANGED key
  /\ UNCHANGED <<inputs, scratch, base, type, size, heap, in0>>

\* line 117
CmpSetZ ==
  /\ pc = "cmp_set_z"
  /\ Called("mp_set")
  /\ \/ /\ key' = [key EXCEPT !.z = 1]
        /\ Continue("ltc_ecc_is_point")
     \/ /\ EnvFails("mp_set")
        /\ UNCHANGED key
  /\ UNCHANGED <<inputs, scratch, base, type, size, heap, in0>>

(* ------------------ lines 124-138: validate, commit, cleanup ------------ *)
\* lines 124-127 with the result of the membership test ignored
IsPointIgnored ==
  /\ pc = "ltc_ecc_is_point"
  /\ Called("ltc_ecc_is_point")
  /\ Continue("commit")
  /\ UNCHANGED <<inputs, key, scratch, base, type, size, heap, in0>>

\* lines 124-127: every failure of the membership test becomes
\* CRYPT_INVALID_PACKET
IsPoint ==
  /\ pc = "ltc_ecc_is_point"
  /\ Called("ltc_ecc_is_point")
  /\ \/ /\ ltc_ecc_is_point(dp, key.x, key.y)
        /\ Continue("commit")
     \/ /\ ~ltc_ecc_is_point(dp, key.x, key.y)
        /\ fault' = <<"ltc_ecc_is_point", "CRYPT_INVALID_PACKET", "input">>
        /\ err' = "CRYPT_INVALID_PACKET"
        /\ pc' = "cleanup"
     \/ \E e \in CollabErrs :
          /\ fault' = <<"ltc_ecc_is_point", e, "env">>
          /\ err' = "CRYPT_INVALID_PACKET"
          /\ pc' = "cleanup"
  /\ UNCHANGED <<inputs, key, scratch, base, type, size, heap, in0>>

\* lines 129-135
Commit ==
  /\ pc = "commit"
  /\ key' = [key EXCEPT !.type = type, !.idx = -1, !.dp = dp]
  /\ Called("mp_clear_multi")
  /\ Released(Scratch)
  /\ err' = "CRYPT_OK"
  /\ pc' = "done"
  /\ UNCHANGED <<inputs, scratch, base, type, size, fault, in0>>

\* lines 136-138
Cleanup ==
  /\ pc = "cleanup"
  /\ Called("mp_clear_multi")
  /\ Released(KeyMp \cup Scratch)
  /\ key' = [key EXCEPT !.x = -1, !.y = -1, !.z = -1, !.k = -1]
  /\ pc' = "done"
  /\ UNCHANGED <<inputs, scratch, base, err, type, size, fault, in0>>

Next ==
  \/ InitMulti
  \/ Classify
  \/ PrivReadK \/ PrivIsZero \/ PrivNewPoint \/ PrivReadPrime \/ PrivReadGx
  \/ PrivReadGy \/ PrivSetZ \/ PrivReadA \/ PrivPtMul \/ PrivDelPoint
  \/ UncReadX \/ UncReadY \/ UncSetZ
  \/ CmpReadX \/ CmpReadPrime \/ CmpReadB \/ CmpReadA \/ CmpSqr \/ CmpMulmodX3
  \/ CmpMulmodAx \/ CmpAddAx \/ CmpAddB \/ CmpSqrt \/ CmpAdjustY \/ CmpSetZ
  \/ IsPoint \/ Commit \/ Cleanup

Spec == Init /\ [][Next]_vars

TypeOK ==
  /\ pc \in {"mp_init_multi", "classify", "priv_read_k", "priv_iszero",
             "priv_new_point", "priv_read_prime", "priv_read_gx", "priv_read_gy",
             "priv_set_z", "priv_read_a", "priv_ptmul", "priv_del_point",
             "unc_read_x", "unc_read_y", "unc_set_z", "cmp_read_x",
             "cmp_read_prime", "cmp_read_b", "cmp_read_a", "cmp_sqr",
             "cmp_mulmod_x3", "cmp_mulmod_ax", "cmp_add_ax", "cmp_add_b",
             "cmp_sqrt", "cmp_adjust_y", "cmp_set_z", "ltc_ecc_is_point",
             "commit", "cleanup", "done"}
  /\ err \in {"CRYPT_OK", "CRYPT_MEM", "CRYPT_ERROR", "CRYPT_INVALID_PACKET"}
  /\ type \in {"NONE", "PK_PRIVATE", "PK_PUBLIC"}
  /\ live \subseteq Resources

(* ------------------------- shared vocabulary ---------------------------- *)
Done == pc = "done"

\* no collaborator ran out of resources; an error a collaborator reports
\* about its arguments (no square root, not on the curve) is not of this kind
NoEnvFault == fault = <<>> \/ fault[3] = "input"

InitFailed == fault # <<>> /\ fault[1] = "mp_init_multi"

\* the field elements of the curve in use
Field == 0..(FieldPrime(dp) - 1)

S == Sets[dp].size

AllZero == \A i \in 1..inlen : in[i] = 0

TagFor(y) == IF y % 2 = 0 THEN 2 ELSE 3

CommittedFields == <<key.type, key.idx, key.dp>>
PreFields == <<KeyPre.type, KeyPre.idx, KeyPre.dp>>

(* -------------------------------- C1 ------------------------------------ *)
\* C1: when no collaborator runs out of resources, importing the S-byte
\* big-endian encoding of a scalar k with 0 < k < group order returns
\* CRYPT_OK with key.type = PK_PRIVATE, key.k = k, key.pubkey = k*G computed
\* from the descriptor's Gx, Gy, A and prime, key.idx = -1, key.dp = dp, and
\* the point satisfies the curve equation.
C1_PrivateImport ==
  (Done /\ NoEnvFault) =>
    \A k \in 1..(GroupOrder(dp) - 1) :
      in = BigEndian(k, S) =>
        /\ err = "CRYPT_OK"
        /\ key.type = "PK_PRIVATE"
        /\ key.k = k
        /\ <<key.x, key.y, key.z>> =
             LET R == ecc_ptmul(k, BasePoint(dp), mp_read_radix(Sets[dp].A), FieldPrime(dp))
             IN  <<R.x, R.y, R.z>>
        /\ key.z = 1
        /\ key.idx = -1
        /\ key.dp = dp
        /\ ltc_ecc_is_point(dp, key.x, key.y)

C1_Witness ==
  /\ Done /\ err = "CRYPT_OK"
  /\ dp = "c263" /\ in = BigEndian(269, 2)
  /\ key.type = "PK_PRIVATE" /\ key.k = 269

(* -------------------------------- C2 ------------------------------------ *)
\* C2: on a curve with prime = 3 mod 4 and when no collaborator runs out of
\* resources, importing tag || x for a curve point (x, y), with tag 0x02 for
\* even y and 0x03 for odd y, returns CRYPT_OK with key.type = PK_PUBLIC and
\* the stored point exactly (x, y, 1); points with y = 0 included.
C2_CompressedRoundTrip ==
  (Done /\ NoEnvFault /\ FieldPrime(dp) % 4 = 3 /\ inlen = S + 1) =>
    \A x \in Field :
      SubSeq(in, 2, inlen) = BigEndian(x, S) =>
        \A y \in Field :
          (ltc_ecc_is_point(dp, x, y) /\ in = <<TagFor(y)>> \o BigEndian(x, S)) =>
            /\ err = "CRYPT_OK"
            /\ key.type = "PK_PUBLIC"
            /\ key.x = x /\ key.y = y /\ key.z = 1

C2_Witness ==
  /\ Done /\ err = "CRYPT_OK" /\ key.type = "PK_PUBLIC"
  /\ dp = "c263" /\ inlen = S + 1 /\ in[1] = 3
  /\ key.x >= 256
  /\ key.y = prime - t2 /\ t2 # 0

(* -------------------------------- C3 ------------------------------------ *)
\* C3: when no collaborator runs out of resources, importing 0x04 || x || y
\* for a curve point (x, y), y even or odd, returns CRYPT_OK with
\* key.type = PK_PUBLIC and the stored point exactly (x, y, 1).
C3_UncompressedRoundTrip ==
  (Done /\ NoEnvFault /\ inlen = 2 * S + 1) =>
    \A x \in Field :
      SubSeq(in, 2, S + 1) = BigEndian(x, S) =>
        \A y \in Field :
          (ltc_ecc_is_point(dp, x, y)
             /\ in = <<4>> \o BigEndian(x, S) \o BigEndian(y, S)) =>
            /\ err = "CRYPT_OK"
            /\ key.type = "PK_PUBLIC"
            /\ key.x = x /\ key.y = y /\ key.z = 1

C3_Witness ==
  /\ Done /\ err = "CRYPT_OK" /\ key.type = "PK_PUBLIC"
  /\ dp = "c263" /\ inlen = 2 * S + 1 /\ in[1] = 4
  /\ key.x >= 256 /\ key.y % 2 = 1

(* -------------------------------- C4 ------------------------------------ *)
BadLengths == {S + 2, S - 1, 2 * S}

\* C4 as stated: for every S >= 1 a buffer of length S+2, S-1 or 2S is never
\* classified and the import fails with CRYPT_INVALID_PACKET (scratch
\* allocation having succeeded).
C4_Original ==
  (Done /\ NoEnvFault /\ inlen \in BadLengths) =>
    (err = "CRYPT_INVALID_PACKET" /\ type = "NONE")

\* C4 amended: for S >= 2, once scratch allocation has succeeded, a buffer of
\* length S+2, S-1 or 2S is never classified and the import fails with
\* CRYPT_INVALID_PACKET whatever its bytes are.
C4_BadLengthsRejected ==
  (Done /\ ~InitFailed /\ S >= 2 /\ inlen \in BadLengths) =>
    (err = "CRYPT_INVALID_PACKET" /\ type = "NONE")

C4_Witness ==
  /\ Done /\ S = 2 /\ inlen = 2 * S /\ in[1] = 4
  /\ err = "CRYPT_INVALID_PACKET" /\ type = "NONE"

(* -------------------------------- C5 ------------------------------------ *)
\* C5: on every failing return after scratch allocation, t1, t2, prime, a, b
\* have each been released exactly once, and the temporary base point, if it
\* was allocated, has been released exactly once: none is live, none is
\* released twice.
C5_TemporariesReleased ==
  (Done /\ err # "CRYPT_OK" /\ ~InitFailed) =>
    /\ live \cap (Scratch \cup {"base"}) = {}
    /\ \A r \in Scratch : rel[r] = 1
    /\ rel["base"] <= 1

(* -------------------------------- C6 ------------------------------------ *)
\* C6: an error code returned by a collaborator primitive is the import's
\* return value; of its own the import produces CRYPT_MEM for a failed
\* allocation and CRYPT_INVALID_PACKET for an unclassified buffer, a zero
\* scalar or a point off the curve.
C6_ErrorsPassThrough ==
  Done =>
    /\ (fault # <<>> /\ fault[1] \in {"mp_init_multi", "ltc_ecc_new_point"})
         => err = "CRYPT_MEM"
    /\ (fault # <<>> /\ fault[1] \notin {"mp_init_multi", "ltc_ecc_new_point"})
         => err = fault[2]
    /\ fault = <<>> => err \in {"CRYPT_OK", "CRYPT_INVALID_PACKET"}

(* -------------------------------- C7 ------------------------------------ *)
\* C7: key.type, key.idx and key.dp differ from their pre-call values only
\* after ltc_ecc_is_point has accepted the stored (x, y); every successful
\* return holds a point on the curve; every failing return leaves the three
\* fields at their pre-call values.
C7_CommitOnlyAfterValidate ==
  /\ (CommittedFields # PreFields) =>
       /\ "ltc_ecc_is_point" \in log
       /\ fault = <<>>
       /\ ltc_ecc_is_point(dp, key.x, key.y)
  /\ (Done /\ err = "CRYPT_OK") =>
       /\ ltc_ecc_is_point(dp, key.x, key.y)
       /\ CommittedFields = <<type, -1, dp>>
  /\ (Done /\ err # "CRYPT_OK") => CommittedFields = PreFields

C7_Witness ==
  /\ Done /\ err = "CRYPT_OK"
  /\ inlen = S + 1 /\ key.type = "PK_PUBLIC" /\ key.dp = "toy23"
  /\ "mp_sqrtmod_prime" \in log /\ "ltc_ecc_is_point" \in log

(* -------------------------------- C8 ------------------------------------ *)
\* C8: for an all-zero buffer of S bytes the base point is never allocated,
\* the scalar multiplication is never called, no key type is committed, and
\* the import returns CRYPT_INVALID_PACKET unless a collaborator ran out of
\* resources first.
C8_ZeroScalarRejected ==
  (inlen = S /\ AllZero) =>
    /\ "ltc_ecc_new_point" \notin log
    /\ "ecc_ptmul" \notin log
    /\ "base" \notin live
    /\ key.type = KeyPre.type
    /\ (Done /\ NoEnvFault) => err = "CRYPT_INVALID_PACKET"

C8_Witness ==
  /\ Done /\ dp = "c263" /\ inlen = S /\ AllZero
  /\ "mp_read_unsigned_bin" \in log
  /\ err = "CRYPT_INVALID_PACKET"

(* -------------------------------- C9 ------------------------------------ *)
\* C9: in[0] is read only when inlen >= 1, and an empty buffer is rejected
\* with CRYPT_INVALID_PACKET without in[0] having been read.
C9_NoReadOfEmptyInput ==
  /\ in0 # "unread" => inlen >= 1
  /\ (Done /\ inlen = 0 /\ ~InitFailed) =>
       (err = "CRYPT_INVALID_PACKET" /\ in0 = "unread")

(* -------------------------------- C10 ----------------------------------- *)
AfterAdjust == pc = "cmp_set_z"

TagParity == IF in[1] = 3 THEN 1 ELSE 0

\* C10 as stated: for every root t in 0..prime-1 and either tag, the y that
\* parity reconciliation stores has the parity the tag encodes.
C10_Original ==
  AfterAdjust => key.y % 2 = TagParity

\* C10 amended: for every root t with 0 < t < prime and either tag, the
\* stored y has the parity the tag encodes: y = t when the parity of t
\* matches the tag, otherwise y = prime - t, and t and prime - t differ in
\* parity; for t = 0 the stored y is 0 under either tag.
C10_ParitySelection ==
  AfterAdjust =>
    /\ t2 \in 0..(prime - 1)
    /\ t2 # 0 =>
         /\ key.y % 2 = TagParity
         /\ key.y = IF t2 % 2 = TagParity THEN t2 ELSE prime - t2
         /\ t2 % 2 # (prime - t2) % 2
    /\ t2 = 0 => key.y = 0

C10_Witness ==
  /\ AfterAdjust /\ in[1] = 2
  /\ t2 % 2 = 1 /\ key.y = prime - t2 /\ key.y % 2 = 0

====
